---------------------------- MODULE Spec2Model ----------------------------
(***************************************************************************)
(* The SupplyChain traceability ledger (src/blockchain/SupplyChain.sol).   *)
(* The state is the contract storage, the block clock and the last mined   *)
(* transaction that took effect (its call, return value and logs).  Every  *)
(* require(...) of a function is a conjunct of its <fn>Status operator,    *)
(* which yields the revert reason the call ends with, or OK.  A call that  *)
(* reverts rolls back every write and emits nothing: it is a stuttering    *)
(* step, so each action is guarded by <fn>Status(...) = OK.                *)
(***************************************************************************)
EXTENDS Integers, Sequences, FiniteSets, TLC

\* ------------------------------------------------------------------ bounds
MaxProducts == 2      \* registerProduct is explored up to this many products
MaxCheckpoints == 3   \* checkpoints explored, over all products together
MaxCerts    == 1      \* certifications explored, over all products together

\* ------------------------------------------------------------------ enums
\* enum Stage
Harvest      == 0
QualityCheck == 1
Processing   == 2
Packaging    == 3
Storage      == 4
Transport    == 5
Warehouse    == 6
Delivery     == 7
Delivered    == 8
Stage        == Harvest..Delivered

\* enum Role
Admin            == 0
Farmer           == 1
QualityInspector == 2
Processor        == 3
Packager         == 4
Transporter      == 5
WarehouseManager == 6
Retailer         == 7
DeliveryPartner  == 8
Role             == Admin..DeliveryPartner

\* ------------------------------------------------------------ identities
Deployer    == "0xOwner"                 \* msg.sender of the constructor
Address     == {Deployer, "0xA", "0xB", "0xC"} \* accounts that send transactions
ZeroAddress == "0x0"                     \* address(0), the default of a mapping
ProductId   == 0..MaxProducts            \* keys of the products mapping explored

\* ------------------------------------------------------- revert reasons
ErrOnlyOwner         == "Only owner can perform this action"
ErrNotActive         == "Not an active participant"
ErrProductNotExist   == "Product does not exist"
ErrUnauthorizedRole  == "Unauthorized role"
ErrAlreadyRegistered == "Participant already registered"
ErrInvalidStage      == "Invalid stage progression"
ErrScoreRange        == "Score must be between 0 and 100"
ErrOnlyDelivery      == "Only delivery partner can mark as delivered"
ErrInvalidIndex      == "Invalid checkpoint index"
OK                   == "success"

VARIABLES
    owner,                  \* address public owner
    productCounter,         \* uint256 public productCounter
    products,               \* mapping(uint256 => Product)
    productJourney,         \* mapping(uint256 => Checkpoint[])
    productCertifications,  \* mapping(uint256 => Certification[])
    participants,           \* mapping(address => Participant)
    productAccessControl,   \* mapping(uint256 => mapping(address => bool))
    now,                    \* block.timestamp of the block being mined
    tx                      \* the last transaction that took effect

storage == <<owner, productCounter, products, productJourney,
             productCertifications, participants, productAccessControl>>
vars    == <<owner, productCounter, products, productJourney,
             productCertifications, participants, productAccessControl, now, tx>>

\* ------------------------------------------------- default storage values
NoProduct ==
    [productId |-> 0, productName |-> "", productType |-> "", harvestDate |-> 0,
     origin |-> "", farmer |-> ZeroAddress, currentStage |-> Harvest,
     isOrganic |-> FALSE, isCertified |-> FALSE, qualityScore |-> 0,
     temperature |-> 0, exists |-> FALSE]

NoParticipant ==
    [participantAddress |-> ZeroAddress, name |-> "", contactInfo |-> "",
     role |-> Admin, isActive |-> FALSE, registrationDate |-> 0]

\* Checkpoint[] lengths over all products (the size of the explored ledger)
RECURSIVE SumLen(_, _)
SumLen(f, S) ==
    IF S = {} THEN 0
    ELSE LET x == CHOOSE y \in S : TRUE IN Len(f[x]) + SumLen(f, S \ {x})
TotalCheckpoints == SumLen(productJourney, ProductId)
TotalCertifications == SumLen(productCertifications, ProductId)

\* ---------------------------------------------------------------- modifiers
onlyOwner(sender)             == sender = owner
onlyActiveParticipant(sender) == participants[sender].isActive
productExists(_productId)     == products[_productId].exists
hasRole(sender, _role)        == participants[sender].role = _role

\* ------------------------------------------------------------- transactions
Mined(fn, sender, args, returned, logs) ==
    tx' = [fn |-> fn, sender |-> sender, args |-> args, returned |-> returned,
           logs |-> logs]

\* ------------------------------------------------------------- constructor
Init ==
    /\ owner = Deployer
    /\ productCounter = 0
    /\ products = [p \in ProductId |-> NoProduct]
    /\ productJourney = [p \in ProductId |-> <<>>]
    /\ productCertifications = [p \in ProductId |-> <<>>]
    /\ now = 1
    /\ participants = [a \in Address |->
         IF a = Deployer
         THEN [participantAddress |-> Deployer, name |-> "System Admin",
               contactInfo |-> "admin@foodchain.com", role |-> Admin,
               isActive |-> TRUE, registrationDate |-> 1]
         ELSE NoParticipant]
    /\ productAccessControl = [p \in ProductId |-> [a \in Address |-> FALSE]]
    /\ tx = [fn |-> "constructor", sender |-> Deployer, args |-> <<>>,
             returned |-> 0, logs |-> <<>>]

\* ------------------------------------------------------------------ events
ParticipantRegistered(a, name, role) ==
    [event |-> "ParticipantRegistered", participantAddress |-> a, name |-> name,
     role |-> role]
ProductRegistered(id, name, farmer) ==
    [event |-> "ProductRegistered", productId |-> id, productName |-> name,
     farmer |-> farmer]
\* Faulty variant: the event names the product's farmer, not the caller.
CheckpointAddedByFarmer(id, stage, by) ==
    [event |-> "CheckpointAdded", productId |-> id, stage |-> stage,
     verifiedBy |-> products[id].farmer]
CheckpointAdded(id, stage, by) ==
    [event |-> "CheckpointAdded", productId |-> id, stage |-> stage,
     verifiedBy |-> by]
CertificationAdded(id, certName) ==
    [event |-> "CertificationAdded", productId |-> id, certName |-> certName]
StageUpdated(id, stage) ==
    [event |-> "StageUpdated", productId |-> id, newStage |-> stage]
TemperatureRecorded(id, temperature, timestamp) ==
    [event |-> "TemperatureRecorded", productId |-> id,
     temperature |-> temperature, timestamp |-> timestamp]
ProductDelivered(id, customer) ==
    [event |-> "ProductDelivered", productId |-> id, deliveredTo |-> customer]

\* ------------------------------------------------------ registerParticipant
\* Faulty variant: any active participant holding the Admin role is let in.
registerParticipantStatusByRole(sender, _address) ==
    IF ~(participants[sender].isActive /\ participants[sender].role = Admin)
    THEN ErrOnlyOwner
    ELSE IF ~(~participants[_address].isActive) THEN ErrAlreadyRegistered
    ELSE OK

registerParticipantStatus(sender, _address) ==
    IF ~onlyOwner(sender) THEN ErrOnlyOwner
    ELSE IF ~(~participants[_address].isActive) THEN ErrAlreadyRegistered
    ELSE OK

registerParticipant(sender, _address, _name, _contactInfo, _role) ==
    /\ registerParticipantStatus(sender, _address) = OK
    /\ participants' = [participants EXCEPT ![_address] =
           [participantAddress |-> _address, name |-> _name,
            contactInfo |-> _contactInfo, role |-> _role,
            isActive |-> TRUE, registrationDate |-> now]]
    /\ Mined("registerParticipant", sender,
             [address |-> _address, name |-> _name,
              contactInfo |-> _contactInfo, role |-> _role],
             0, <<ParticipantRegistered(_address, _name, _role)>>)
    /\ UNCHANGED <<owner, productCounter, products, productJourney,
                   productCertifications, productAccessControl, now>>

\* ---------------------------------------------------- deactivateParticipant
deactivateParticipantStatus(sender) ==
    IF ~onlyOwner(sender) THEN ErrOnlyOwner ELSE OK

deactivateParticipant(sender, _address) ==
    /\ deactivateParticipantStatus(sender) = OK
    /\ participants' = [participants EXCEPT ![_address].isActive = FALSE]
    /\ Mined("deactivateParticipant", sender, [address |-> _address], 0, <<>>)
    /\ UNCHANGED <<owner, productCounter, products, productJourney,
                   productCertifications, productAccessControl, now>>

\* ---------------------------------------------------------- registerProduct
\* Faulty variant: the hasRole(Role.Farmer) modifier is missing.
registerProductStatusNoRole(sender) ==
    IF ~onlyActiveParticipant(sender) THEN ErrNotActive ELSE OK

registerProductStatus(sender) ==
    IF ~onlyActiveParticipant(sender) THEN ErrNotActive
    ELSE IF ~hasRole(sender, Farmer) THEN ErrUnauthorizedRole
    ELSE OK

\* Faulty variant: the counter is read before it is incremented.
incrementedCounterStale == productCounter

\* productCounter++ (line 173): the ID the new product is stored under
incrementedCounter == productCounter + 1

\* Faulty variant: an organic product is registered as certified.
newProductCertified(id, sender, _productName, _productType, _origin, _isOrganic) ==
    [productId |-> id, productName |-> _productName,
     productType |-> _productType, harvestDate |-> now, origin |-> _origin,
     farmer |-> sender, currentStage |-> Harvest, isOrganic |-> _isOrganic,
     isCertified |-> _isOrganic, qualityScore |-> 0, temperature |-> 0,
     exists |-> TRUE]

newProduct(id, sender, _productName, _productType, _origin, _isOrganic) ==
    [productId |-> id, productName |-> _productName,
     productType |-> _productType, harvestDate |-> now, origin |-> _origin,
     farmer |-> sender, currentStage |-> Harvest, isOrganic |-> _isOrganic,
     isCertified |-> FALSE, qualityScore |-> 0, temperature |-> 0,
     exists |-> TRUE]

\* Faulty variant: the initial checkpoint is attributed to the owner.
harvestCheckpointByOwner(sender, _origin) ==
    [stage |-> Harvest, location |-> _origin, timestamp |-> now,
     verifiedBy |-> owner, verifierName |-> participants[owner].name,
     verifierRole |-> Farmer, temperature |-> 0,
     notes |-> "Product harvested", ipfsHash |-> ""]

harvestCheckpoint(sender, _origin) ==
    [stage |-> Harvest, location |-> _origin, timestamp |-> now,
     verifiedBy |-> sender, verifierName |-> participants[sender].name,
     verifierRole |-> Farmer, temperature |-> 0,
     notes |-> "Product harvested", ipfsHash |-> ""]

registerProduct(sender, _productName, _productType, _origin, _isOrganic) ==
    LET id == incrementedCounter
    IN  /\ registerProductStatus(sender) = OK
        /\ id <= MaxProducts
        /\ TotalCheckpoints < MaxCheckpoints
        /\ productCounter' = id
        /\ products' = [products EXCEPT ![id] =
               newProduct(id, sender, _productName, _productType, _origin,
                          _isOrganic)]
        /\ productJourney' = [productJourney EXCEPT ![id] =
               Append(@, harvestCheckpoint(sender, _origin))]
        /\ productAccessControl' =
               [productAccessControl EXCEPT ![id][sender] = TRUE]
        /\ Mined("registerProduct", sender,
                 [productName |-> _productName, productType |-> _productType,
                  origin |-> _origin, isOrganic |-> _isOrganic],
                 id, <<ProductRegistered(id, _productName, sender),
                       CheckpointAdded(id, Harvest, sender)>>)
        /\ UNCHANGED <<owner, productCertifications, participants, now>>

\* ------------------------------------------------------------ addCheckpoint
\* Faulty variants of the stage comparison: >= for >, != for >, only the next stage,
\* no comparison at all.
validProgressionGeq(_stage, currentStage)  == _stage >= currentStage
validProgressionNeq(_stage, currentStage)  == _stage /= currentStage
validProgressionNext(_stage, currentStage) == _stage = currentStage + 1
validProgressionAny(_stage, currentStage)  == TRUE

\* Faulty variant: the stage is compared with the first stage, not the current one.
validProgressionFromHarvest(_stage, currentStage) == _stage > Harvest

\* require(uint8(_stage) > uint8(products[_productId].currentStage))
validProgression(_stage, currentStage) == _stage > currentStage

\* Faulty variant: the stage is not compared with the product's current one.
addCheckpointStatusNoStage(sender, _productId, _stage) ==
    IF ~onlyActiveParticipant(sender) THEN ErrNotActive
    ELSE IF ~productExists(_productId) THEN ErrProductNotExist
    ELSE OK

addCheckpointStatus(sender, _productId, _stage) ==
    IF ~onlyActiveParticipant(sender) THEN ErrNotActive
    ELSE IF ~productExists(_productId) THEN ErrProductNotExist
    ELSE IF ~validProgression(_stage, products[_productId].currentStage)
    THEN ErrInvalidStage
    ELSE OK

\* Faulty variant: the verifier's name and role are not captured.
newCheckpointUnnamed(sender, _stage, _location, _temperature, _notes, _ipfsHash) ==
    [stage |-> _stage, location |-> _location, timestamp |-> now,
     verifiedBy |-> sender, verifierName |-> "", verifierRole |-> Admin,
     temperature |-> _temperature, notes |-> _notes, ipfsHash |-> _ipfsHash]

\* Faulty variant: the checkpoint does not record the temperature.
newCheckpointNoTemperature(sender, _stage, _location, _temperature, _notes, _ipfsHash) ==
    [stage |-> _stage, location |-> _location, timestamp |-> now,
     verifiedBy |-> sender, verifierName |-> participants[sender].name,
     verifierRole |-> participants[sender].role, temperature |-> 0,
     notes |-> _notes, ipfsHash |-> _ipfsHash]

\* Faulty variant: the checkpoint is not dated.
newCheckpointUndated(sender, _stage, _location, _temperature, _notes, _ipfsHash) ==
    [stage |-> _stage, location |-> _location, timestamp |-> 0,
     verifiedBy |-> sender, verifierName |-> participants[sender].name,
     verifierRole |-> participants[sender].role, temperature |-> _temperature,
     notes |-> _notes, ipfsHash |-> _ipfsHash]

newCheckpoint(sender, _stage, _location, _temperature, _notes, _ipfsHash) ==
    [stage |-> _stage, location |-> _location, timestamp |-> now,
     verifiedBy |-> sender, verifierName |-> participants[sender].name,
     verifierRole |-> participants[sender].role, temperature |-> _temperature,
     notes |-> _notes, ipfsHash |-> _ipfsHash]

\* The call as the contract runs it, with no cap on the journeys explored.
addCheckpointTx(sender, _productId, _stage, _location, _temperature, _notes, _ipfsHash) ==
    /\ addCheckpointStatus(sender, _productId, _stage) = OK
    /\ productJourney' = [productJourney EXCEPT ![_productId] =
           Append(@, newCheckpoint(sender, _stage, _location, _temperature,
                                   _notes, _ipfsHash))]
    /\ products' = [products EXCEPT
           ![_productId].currentStage = _stage,
           ![_productId].temperature = _temperature]
    /\ Mined("addCheckpoint", sender,
             [productId |-> _productId, stage |-> _stage,
              location |-> _location, temperature |-> _temperature,
              notes |-> _notes, ipfsHash |-> _ipfsHash],
             0, <<CheckpointAdded(_productId, _stage, sender),
                  StageUpdated(_productId, _stage),
                  TemperatureRecorded(_productId, _temperature, now)>>)
    /\ UNCHANGED <<owner, productCounter, productCertifications, participants,
                   productAccessControl, now>>

addCheckpoint(sender, _productId, _stage, _location, _temperature, _notes, _ipfsHash) ==
    /\ TotalCheckpoints < MaxCheckpoints
    /\ addCheckpointTx(sender, _productId, _stage, _location, _temperature,
                       _notes, _ipfsHash)

\* --------------------------------------------------------- addCertification
addCertificationStatus(sender, _productId) ==
    IF ~onlyActiveParticipant(sender) THEN ErrNotActive
    ELSE IF ~productExists(_productId) THEN ErrProductNotExist
    ELSE OK

\* Faulty variant: a certification is valid only while it has not expired.
newCertificationChecked(_certName, _certAuthority, _expiryDate, _certHash) ==
    [certName |-> _certName, certAuthority |-> _certAuthority,
     certDate |-> now, expiryDate |-> _expiryDate, certHash |-> _certHash,
     isValid |-> _expiryDate > now]

newCertification(_certName, _certAuthority, _expiryDate, _certHash) ==
    [certName |-> _certName, certAuthority |-> _certAuthority,
     certDate |-> now, expiryDate |-> _expiryDate, certHash |-> _certHash,
     isValid |-> TRUE]

addCertification(sender, _productId, _certName, _certAuthority, _expiryDate, _certHash) ==
    /\ addCertificationStatus(sender, _productId) = OK
    /\ TotalCertifications < MaxCerts
    /\ productCertifications' = [productCertifications EXCEPT
           ![_productId] = Append(@, newCertification(_certName,
                               _certAuthority, _expiryDate, _certHash))]
    /\ products' = [products EXCEPT ![_productId].isCertified = TRUE]
    /\ Mined("addCertification", sender,
             [productId |-> _productId, certName |-> _certName,
              certAuthority |-> _certAuthority, expiryDate |-> _expiryDate,
              certHash |-> _certHash],
             0, <<CertificationAdded(_productId, _certName)>>)
    /\ UNCHANGED <<owner, productCounter, productJourney, participants,
                   productAccessControl, now>>

\* ------------------------------------------------------- updateQualityScore
\* Faulty variants: the range require is missing; the hasRole modifier is
\* missing.
updateQualityScoreStatusNoRange(sender, _productId, _score) ==
    IF ~onlyActiveParticipant(sender) THEN ErrNotActive
    ELSE IF ~hasRole(sender, QualityInspector) THEN ErrUnauthorizedRole
    ELSE IF ~productExists(_productId) THEN ErrProductNotExist
    ELSE OK
updateQualityScoreStatusNoRole(sender, _productId, _score) ==
    IF ~onlyActiveParticipant(sender) THEN ErrNotActive
    ELSE IF ~productExists(_productId) THEN ErrProductNotExist
    ELSE IF ~(_score <= 100) THEN ErrScoreRange
    ELSE OK

\* Faulty variant: the range require runs before the modifiers.
updateQualityScoreStatusRangeFirst(sender, _productId, _score) ==
    IF ~(_score <= 100) THEN ErrScoreRange
    ELSE IF ~onlyActiveParticipant(sender) THEN ErrNotActive
    ELSE IF ~hasRole(sender, QualityInspector) THEN ErrUnauthorizedRole
    ELSE IF ~productExists(_productId) THEN ErrProductNotExist
    ELSE OK

updateQualityScoreStatus(sender, _productId, _score) ==
    IF ~onlyActiveParticipant(sender) THEN ErrNotActive
    ELSE IF ~hasRole(sender, QualityInspector) THEN ErrUnauthorizedRole
    ELSE IF ~productExists(_productId) THEN ErrProductNotExist
    ELSE IF ~(_score <= 100) THEN ErrScoreRange
    ELSE OK

updateQualityScore(sender, _productId, _score) ==
    /\ updateQualityScoreStatus(sender, _productId, _score) = OK
    /\ products' = [products EXCEPT ![_productId].qualityScore = _score]
    /\ Mined("updateQualityScore", sender,
             [productId |-> _productId, score |-> _score], 0, <<>>)
    /\ UNCHANGED <<owner, productCounter, productJourney,
                   productCertifications, participants, productAccessControl,
                   now>>

\* ------------------------------------------------------------ markDelivered
\* Faulty variant: the role require is missing.
markDeliveredStatusNoRole(sender, _productId) ==
    IF ~onlyActiveParticipant(sender) THEN ErrNotActive
    ELSE IF ~productExists(_productId) THEN ErrProductNotExist
    ELSE OK

markDeliveredStatus(sender, _productId) ==
    IF ~onlyActiveParticipant(sender) THEN ErrNotActive
    ELSE IF ~productExists(_productId) THEN ErrProductNotExist
    ELSE IF ~(participants[sender].role = DeliveryPartner) THEN ErrOnlyDelivery
    ELSE OK

\* Faulty variant: the stage before the last one is written.
deliveredStageDelivery == Delivery

\* products[_productId].currentStage = Stage.Delivered (line 296)
deliveredStage == Delivered

\* Faulty variant: the terminal checkpoint does not carry the temperature forward.
deliveredCheckpointCold(sender, _productId) ==
    [stage |-> Delivered, location |-> "Customer Location", timestamp |-> now,
     verifiedBy |-> sender, verifierName |-> participants[sender].name,
     verifierRole |-> DeliveryPartner, temperature |-> 0,
     notes |-> "Product delivered to customer", ipfsHash |-> ""]

deliveredCheckpoint(sender, _productId) ==
    [stage |-> Delivered, location |-> "Customer Location", timestamp |-> now,
     verifiedBy |-> sender, verifierName |-> participants[sender].name,
     verifierRole |-> DeliveryPartner,
     temperature |-> products[_productId].temperature,
     notes |-> "Product delivered to customer", ipfsHash |-> ""]

\* The call as the contract runs it, with no cap on the journeys explored.
markDeliveredTx(sender, _productId, _customer) ==
    /\ markDeliveredStatus(sender, _productId) = OK
    /\ products' = [products EXCEPT ![_productId].currentStage = deliveredStage]
    /\ productJourney' = [productJourney EXCEPT ![_productId] =
           Append(@, deliveredCheckpoint(sender, _productId))]
    /\ Mined("markDelivered", sender,
             [productId |-> _productId, customer |-> _customer],
             0, <<ProductDelivered(_productId, _customer)>>)
    /\ UNCHANGED <<owner, productCounter, productCertifications, participants,
                   productAccessControl, now>>

markDelivered(sender, _productId, _customer) ==
    /\ TotalCheckpoints < MaxCheckpoints
    /\ markDeliveredTx(sender, _productId, _customer)

\* ----------------------------------------------------------- view functions
getTotalProducts == productCounter

\* Faulty variant: the journey is returned newest checkpoint first.
getProductJourneyNewestFirst(_productId) ==
    [i \in 1..Len(productJourney[_productId]) |->
        productJourney[_productId][Len(productJourney[_productId]) + 1 - i]]

\* The views revert for an unknown product; otherwise they return the stored
\* array, copied to memory as it is.
getProductJourneyStatus(_productId) ==
    IF ~productExists(_productId) THEN ErrProductNotExist ELSE OK
getProductJourney(_productId) == productJourney[_productId]

getProductCertificationsStatus(_productId) ==
    IF ~productExists(_productId) THEN ErrProductNotExist ELSE OK
getProductCertifications(_productId) == productCertifications[_productId]

getCheckpointCountStatus(_productId) ==
    IF ~productExists(_productId) THEN ErrProductNotExist ELSE OK
getCheckpointCount(_productId) == Len(productJourney[_productId])

\* Faulty variant: the index one past the end is let through.
getCheckpointStatusPastEnd(_productId, _index) ==
    IF ~productExists(_productId) THEN ErrProductNotExist
    ELSE IF ~(_index <= Len(productJourney[_productId])) THEN ErrInvalidIndex
    ELSE OK

getCheckpointStatus(_productId, _index) ==
    IF ~productExists(_productId) THEN ErrProductNotExist
    ELSE IF ~(_index < Len(productJourney[_productId])) THEN ErrInvalidIndex
    ELSE OK

\* The array is indexed from 0; the returned tuple has seven of the nine
\* fields of the checkpoint.
getCheckpoint(_productId, _index) ==
    LET cp == productJourney[_productId][_index + 1]
    IN  [stage |-> cp.stage, location |-> cp.location,
         timestamp |-> cp.timestamp, verifiedBy |-> cp.verifiedBy,
         verifierName |-> cp.verifierName, temperature |-> cp.temperature,
         notes |-> cp.notes]

\* Faulty variant: a product is authentic only once it is certified.
verifyProductCertified(_productId) ==
    products[_productId].exists /\ products[_productId].isCertified

verifyProductStatus(_productId) ==
    IF ~productExists(_productId) THEN ErrProductNotExist ELSE OK
verifyProduct(_productId) ==
    products[_productId].exists /\ Len(productJourney[_productId]) > 0

\* ------------------------------------------------------- transaction inputs
\* The accounts the owner registers, each under its own role.
Roster ==
    { [address |-> "0xA", name |-> "Green Valley Farm",
       contactInfo |-> "farmer@greenvalley.com", role |-> Farmer],
      [address |-> "0xB", name |-> "Quality Inspector",
       contactInfo |-> "inspector@fssai.gov", role |-> QualityInspector],
      [address |-> "0xC", name |-> "Swift Delivery",
       contactInfo |-> "delivery@swift.com", role |-> DeliveryPartner] }
Origins    == {"Shimla"}
Locations  == {"Lab"}
Temps      == {4}
Scores     == {0}
Expiries   == {0}
SentStages == {Harvest, QualityCheck, Delivered}

\* One transaction, its arguments drawn from the given sets.
Transaction(roster, stages, temps, scores, expiries) ==
    \/ \E s \in Address, e \in roster :
          registerParticipant(s, e.address, e.name, e.contactInfo, e.role)
    \/ \E s \in Address, a \in Address : deactivateParticipant(s, a)
    \/ \E s \in Address, o \in Origins :
          registerProduct(s, "Apples", "Fruit", o, TRUE)
    \/ \E s \in Address, p \in ProductId, st \in stages, l \in Locations,
          t \in temps : addCheckpoint(s, p, st, l, t, "ok", "")
    \/ \E s \in Address, p \in ProductId, e \in expiries :
          addCertification(s, p, "USDA Organic", "USDA", e, "cert_hash_123")
    \/ \E s \in Address, p \in ProductId, sc \in scores :
          updateQualityScore(s, p, sc)
    \/ \E s \in Address, p \in ProductId : markDelivered(s, p, "0xCustomer")

Next == Transaction(Roster, SentStages, Temps, Scores, Expiries)

Spec == Init /\ [][Next]_vars

\* The same ledger with a roster the owner reshuffles: an account may be
\* registered again under another name and role once it was deactivated, a
\* second account may hold the Admin role, and two accounts may be Farmers.
RosterChanges ==
    Roster \cup
    { [address |-> "0xB", name |-> "Second Admin",
       contactInfo |-> "admin2@foodchain.com", role |-> Admin],
      [address |-> "0xB", name |-> "Hill Orchard",
       contactInfo |-> "orchard@hill.com", role |-> Farmer] }
Reshuffled == {"0xB"}      \* the account the owner deactivates here

NextRoster ==
    \/ \E s \in Address, e \in RosterChanges :
          registerParticipant(s, e.address, e.name, e.contactInfo, e.role)
    \/ \E s \in Address, a \in Reshuffled : deactivateParticipant(s, a)
    \/ \E s \in Address, o \in Origins :
          registerProduct(s, "Apples", "Fruit", o, TRUE)
    \/ \E s \in Address, p \in ProductId, l \in Locations, t \in Temps :
          addCheckpoint(s, p, QualityCheck, l, t, "ok", "")
    \/ \E s \in Address, p \in ProductId, e \in Expiries :
          addCertification(s, p, "USDA Organic", "USDA", e, "cert_hash_123")
    \/ \E s \in Address, p \in ProductId, sc \in Scores :
          updateQualityScore(s, p, sc)
    \/ \E s \in Address, p \in ProductId : markDelivered(s, p, "0xCustomer")

SpecRoster == Init /\ [][NextRoster]_vars

\* The same ledger with inspectors sending the scores at and around the ends
\* of the accepted range.
MaxScore   == 100
SentScores == {0, MaxScore, MaxScore + 1}
Dismissed  == {"0xA", "0xB"}   \* the accounts the owner deactivates here

NextQuality ==
    \/ \E s \in Address, e \in Roster :
          registerParticipant(s, e.address, e.name, e.contactInfo, e.role)
    \/ \E s \in Address, a \in Dismissed : deactivateParticipant(s, a)
    \/ \E s \in Address, o \in Origins :
          registerProduct(s, "Apples", "Fruit", o, TRUE)
    \/ \E s \in Address, p \in ProductId, l \in Locations, t \in Temps :
          addCheckpoint(s, p, QualityCheck, l, t, "ok", "")
    \/ \E s \in Address, p \in ProductId, e \in Expiries :
          addCertification(s, p, "USDA Organic", "USDA", e, "cert_hash_123")
    \/ \E s \in Address, p \in ProductId, sc \in SentScores :
          updateQualityScore(s, p, sc)
    \/ \E s \in Address, p \in ProductId : markDelivered(s, p, "0xCustomer")

SpecQuality == Init /\ [][NextQuality]_vars

\* The same ledger with certifications that expired, expire in this block or
\* expire later (block.timestamp is 1).
SentExpiries == {0, 1, 2}
Suspended    == {"0xA"}    \* the account the owner deactivates here

NextCerts ==
    \/ \E s \in Address, e \in Roster :
          registerParticipant(s, e.address, e.name, e.contactInfo, e.role)
    \/ \E s \in Address, a \in Suspended : deactivateParticipant(s, a)
    \/ \E s \in Address, o \in Origins :
          registerProduct(s, "Apples", "Fruit", o, TRUE)
    \/ \E s \in Address, p \in ProductId, l \in Locations, t \in Temps :
          addCheckpoint(s, p, QualityCheck, l, t, "ok", "")
    \/ \E s \in Address, p \in ProductId, e \in SentExpiries :
          addCertification(s, p, "USDA Organic", "USDA", e, "cert_hash_123")
    \/ \E s \in Address, p \in ProductId, sc \in Scores :
          updateQualityScore(s, p, sc)
    \/ \E s \in Address, p \in ProductId : markDelivered(s, p, "0xCustomer")

SpecCerts == Init /\ [][NextCerts]_vars

\* The journeys of the same ledger with blocks mined at later times:
\* block.timestamp never goes backward from one block to the next.
MaxTime == 2          \* block timestamps explored
Retired == {"0xC"}    \* the account the owner deactivates here

NewBlock ==
    /\ now < MaxTime
    /\ now' = now + 1
    /\ UNCHANGED <<owner, productCounter, products, productJourney,
                   productCertifications, participants, productAccessControl,
                   tx>>

NextClock ==
    \/ NewBlock
    \/ \E s \in Address, e \in Roster :
          registerParticipant(s, e.address, e.name, e.contactInfo, e.role)
    \/ \E s \in Address, a \in Retired : deactivateParticipant(s, a)
    \/ \E s \in Address, o \in Origins :
          registerProduct(s, "Apples", "Fruit", o, TRUE)
    \/ \E s \in Address, p \in ProductId, l \in Locations, t \in Temps :
          addCheckpoint(s, p, QualityCheck, l, t, "ok", "")
    \/ \E s \in Address, p \in ProductId : markDelivered(s, p, "0xCustomer")

SpecClock == Init /\ [][NextClock]_vars

\* One product taken through its stages: every stage is sent, by the
\* inspector, and the delivery partner delivers, until the journey holds
\* MaxJourney checkpoints.
MaxJourney == 9       \* checkpoints explored on the one product

NextStages ==
    \/ \E s \in Address, e \in Roster :
          registerParticipant(s, e.address, e.name, e.contactInfo, e.role)
    \/ \E s \in Address, o \in Origins :
          /\ getTotalProducts = 0
          /\ registerProduct(s, "Apples", "Fruit", o, TRUE)
    \/ \E p \in ProductId, st \in Stage, l \in Locations, t \in Temps :
          /\ Len(productJourney[p]) < MaxJourney
          /\ addCheckpointTx("0xB", p, st, l, t, "ok", "")
    \/ \E s \in Address, p \in ProductId :
          /\ Len(productJourney[p]) < MaxJourney
          /\ markDeliveredTx(s, p, "0xCustomer")

SpecStages == Init /\ [][NextStages]_vars


\* ======================================================================
\* The product code generator (src/unnamed/part_000), run by the scripts
\* next to the ledger.  A JavaScript value is a record with its typeof; a
\* string is the sequence of its characters.  The last call is kept in tx.
\* ======================================================================
MaxTypeLen == 3       \* product types of every length up to this are tried

LowerLetters == <<"a", "b", "c", "d", "e", "f", "g", "h", "i", "j", "k", "l", "m", "n", "o", "p", "q", "r", "s", "t", "u", "v", "w", "x", "y", "z">>
UpperLetters == <<"A", "B", "C", "D", "E", "F", "G", "H", "I", "J", "K", "L", "M", "N", "O", "P", "Q", "R", "S", "T", "U", "V", "W", "X", "Y", "Z">>
DigitChars   == <<"0", "1", "2", "3", "4", "5", "6", "7", "8", "9">>
Range(f)     == {f[i] : i \in DOMAIN f}

\* String.prototype.toUpperCase, character by character
toUpperCaseChar(c) ==
    IF c \in Range(LowerLetters)
    THEN UpperLetters[CHOOSE i \in 1..26 : LowerLetters[i] = c]
    ELSE c
toUpperCase(str) == [i \in 1..Len(str) |-> toUpperCaseChar(str[i])]

\* the character classes [A-Z0-9] and [A-F0-9]
IsUpperAlnum(c) == c \in Range(UpperLetters) \cup Range(DigitChars)
IsUpperHex(c)   == c \in {"A", "B", "C", "D", "E", "F"} \cup Range(DigitChars)

\* str.replace(/[^A-Z0-9]/g, '')
removeNonAlnum(str) == SelectSeq(str, IsUpperAlnum)

\* str.substring(0, end)
substring(str, end) == SubSeq(str, 1, IF end < Len(str) THEN end ELSE Len(str))

\* Number.prototype.toString(36) of a number given by its base-36 digits,
\* most significant first
toString36(digits) ==
    [i \in 1..Len(digits) |-> (DigitChars \o LowerLetters)[digits[i] + 1]]

\* Buffer.prototype.toString('hex'): two lower-case hex digits per byte
hexDigit(n)   == (DigitChars \o LowerLetters)[n + 1]
RECURSIVE toHex(_)
toHex(bytes) ==
    IF bytes = <<>> THEN <<>>
    ELSE <<hexDigit(Head(bytes) \div 16), hexDigit(Head(bytes) % 16)>>
             \o toHex(Tail(bytes))

\* !productType
falsy(v) ==
    \/ v.type \in {"object", "undefined"}
    \/ v.type = "string" /\ v.value = <<>>
    \/ v.type = "number" /\ v.value = 0

Returned(value) == [threw |-> FALSE, value |-> value]
Thrown(message) == [threw |-> TRUE, value |-> message]

generateProductId(productType, dateNow, randomBytes) ==
    IF falsy(productType) \/ productType.type # "string"
    THEN Thrown("Product type is required and must be a string")
    ELSE LET prefix == substring(removeNonAlnum(toUpperCase(productType.value)), 10)
         IN  IF Len(prefix) = 0
             THEN Thrown("Product type must contain at least one alphanumeric character")
             ELSE LET timestamp == toUpperCase(toString36(dateNow))
                      random    == toUpperCase(toHex(randomBytes))
                  IN  Returned(prefix \o <<"_">> \o timestamp \o <<"_">> \o random)

\* /^[A-Z0-9]{3,10}_[A-Z0-9]{5,10}_[A-F0-9]{6}$/.test(productId): neither class
\* holds "_", so the two separators are the only underscores of a match.
isValidProductId(productId) ==
    \E i \in 1..Len(productId), j \in 1..Len(productId) :
        /\ i < j
        /\ productId[i] = "_" /\ productId[j] = "_"
        /\ i - 1 \in 3..10
        /\ \A k \in 1..(i - 1) : IsUpperAlnum(productId[k])
        /\ j - i - 1 \in 5..10
        /\ \A k \in (i + 1)..(j - 1) : IsUpperAlnum(productId[k])
        /\ Len(productId) - j = 6
        /\ \A k \in (j + 1)..Len(productId) : IsUpperHex(productId[k])

\* Inputs: every string over a few characters up to MaxTypeLen, the product
\* names the scripts use, and the values of the error-handling test.
TypeChars == {"a", "Z", "7", " "}
Str(chars) == [type |-> "string", value |-> chars]
ProductTypes ==
    {Str(c) : c \in UNION {[1..n -> TypeChars] : n \in 0..MaxTypeLen}}
    \cup {Str(<<"O", "r", "g", "a", "n", "i", "c", " ", "A", "p", "p", "l", "e", "s">>),
          Str(<<"F", "r", "e", "s", "h", " ", "M", "i", "l", "k">>),
          [type |-> "object", value |-> "null"],
          [type |-> "undefined", value |-> "undefined"],
          [type |-> "number", value |-> 123]}
\* Date.now() on 2025-11-06 and one year later, in base-36 digits
Clocks == {<<22, 17, 22, 23, 30, 2, 24, 0>>, <<22, 32, 4, 7, 20, 0, 3, 15>>}
\* crypto.randomBytes(3)
RandomBytes == {<<0, 0, 0>>, <<167, 185, 194>>, <<255, 255, 255>>}

GenerateProductId ==
    \E t \in ProductTypes, d \in Clocks, r \in RandomBytes :
        /\ Mined("generateProductId", "script",
                 [productType |-> t, dateNow |-> d, randomBytes |-> r],
                 generateProductId(t, d, r), <<>>)
        /\ UNCHANGED <<owner, productCounter, products, productJourney,
                       productCertifications, participants,
                       productAccessControl, now>>

SpecProductId == Init /\ [][GenerateProductId]_vars

\* ======================================================================
\* Properties
\* ======================================================================
Last(seq)     == seq[Len(seq)]
Journey(p)    == productJourney[p]
CurStage(p)   == products[p].currentStage
IsActive(a)   == participants[a].isActive
RoleOf(a)     == participants[a].role

\* C1: for every registered product, the current stage equals the stage of
\* the last checkpoint of its journey.
C1_StageIsLastCheckpoint ==
    \A p \in ProductId :
        products[p].exists =>
            /\ Len(Journey(p)) > 0
            /\ CurStage(p) = Last(Journey(p)).stage

\* A product delivered by markDelivered after an intermediate checkpoint.
C1_Witness ==
    \E p \in ProductId :
        /\ products[p].exists
        /\ Len(Journey(p)) = 3
        /\ tx.fn = "markDelivered" /\ tx.args.productId = p
        /\ Journey(p)[2].stage = QualityCheck

\* C2: every registered product's journey is non-empty, starts with a Harvest
\* checkpoint and is strictly increasing in stage ordinal.
C2_StrictlyIncreasing ==
    \A p \in ProductId :
        products[p].exists =>
            /\ Len(Journey(p)) > 0
            /\ Journey(p)[1].stage = Harvest
            /\ \A i \in 1..(Len(Journey(p)) - 1) :
                   Journey(p)[i].stage < Journey(p)[i + 1].stage

\* C3: across every step, a registered product's current stage ordinal never
\* decreases (and the product stays registered).
C3_Monotonic ==
    [][\A p \in ProductId :
          products[p].exists =>
              /\ products'[p].exists
              /\ products'[p].currentStage >= products[p].currentStage]_vars

\* A product whose stage advanced twice through addCheckpoint.
C3_Witness ==
    \E p \in ProductId :
        /\ Len(Journey(p)) = 3
        /\ Journey(p)[2].stage = QualityCheck
        /\ Journey(p)[3].stage = Delivered
        /\ tx.fn = "addCheckpoint" /\ tx.args.productId = p
        /\ CurStage(p) = Delivered

\* C4: addCheckpoint by an active participant on an existing product with a
\* stage whose ordinal is <= the current stage reverts with "Invalid stage
\* progression", and no step of the ledger is such a call: every addCheckpoint
\* that takes effect asked for a stage above the one the product was in.
C4_NoBackwardCheckpoint ==
    /\ [](\A s \in Address, p \in ProductId, st \in Stage :
            (IsActive(s) /\ products[p].exists /\ st <= CurStage(p))
                => addCheckpointStatus(s, p, st) = ErrInvalidStage)
    /\ [][tx'.fn = "addCheckpoint" =>
            tx'.args.stage > products[tx'.args.productId].currentStage]_vars

\* An active participant faces a product that is past Harvest: asking for the
\* same stage or for an earlier one is rejected.
C4_Witness ==
    \E s \in Address, p \in ProductId :
        /\ IsActive(s) /\ products[p].exists
        /\ CurStage(p) = QualityCheck
        /\ addCheckpointStatus(s, p, QualityCheck) = ErrInvalidStage
        /\ addCheckpointStatus(s, p, Harvest) = ErrInvalidStage

\* C5: addCheckpoint succeeds for any active participant of any role on any
\* existing product whenever the stage is strictly above the current one
\* (skipping stages included); the journey then grows by exactly one
\* checkpoint, and the current stage and the last recorded temperature become
\* the supplied stage and temperature.
C5_ForwardCheckpoint ==
    /\ [](\A s \in Address, p \in ProductId, st \in Stage :
            (IsActive(s) /\ products[p].exists /\ st > CurStage(p))
                => addCheckpointStatus(s, p, st) = OK)
    /\ [][tx'.fn = "addCheckpoint" =>
            LET p == tx'.args.productId
                n == Len(productJourney[p])
            IN  /\ Len(productJourney'[p]) = n + 1
                /\ SubSeq(productJourney'[p], 1, n) = productJourney[p]
                /\ productJourney'[p][n + 1].stage = tx'.args.stage
                /\ productJourney'[p][n + 1].temperature = tx'.args.temperature
                /\ products'[p].currentStage = tx'.args.stage
                /\ products'[p].temperature = tx'.args.temperature
                /\ \A q \in ProductId \ {p} :
                       /\ productJourney'[q] = productJourney[q]
                       /\ products'[q] = products[q]]_vars

\* A non-farmer took a product from Harvest directly to Delivered.
C5_Witness ==
    /\ tx.fn = "addCheckpoint"
    /\ tx.args.stage = Delivered
    /\ RoleOf(tx.sender) = QualityInspector
    /\ Len(Journey(tx.args.productId)) = 2
    /\ CurStage(tx.args.productId) = Delivered
    /\ products[tx.args.productId].temperature = 4


\* C6 as stated: once a product is Delivered, every addCheckpoint call on it,
\* by any caller with any stage, reverts with "Invalid stage progression".
C6_AnyCallerInvalidStage ==
    \A p \in ProductId :
        (products[p].exists /\ CurStage(p) = Delivered) =>
            \A s \in Address, st \in Stage :
                addCheckpointStatus(s, p, st) = ErrInvalidStage

\* C6 (amended): once a product's current stage is Delivered it stays
\* Delivered in every later state; every addCheckpoint call on it reverts,
\* with "Invalid stage progression" for an active caller and with "Not an
\* active participant" for any other caller, whatever the stage; markDelivered
\* by an active DeliveryPartner still passes every check.
C6_DeliveredIsTerminal ==
    /\ [](\A p \in ProductId :
            (products[p].exists /\ CurStage(p) = Delivered) =>
                /\ \A s \in Address, st \in Stage :
                       addCheckpointStatus(s, p, st) =
                           IF IsActive(s) THEN ErrInvalidStage ELSE ErrNotActive
                /\ \A s \in Address :
                       (IsActive(s) /\ RoleOf(s) = DeliveryPartner)
                           => markDeliveredStatus(s, p) = OK)
    /\ [][\A p \in ProductId :
            (products[p].exists /\ CurStage(p) = Delivered) =>
                /\ products'[p].currentStage = Delivered
                /\ ~(tx'.fn = "addCheckpoint" /\ tx'.args.productId = p)]_vars

\* A Delivered product was delivered once more by markDelivered, while one
\* account is active and another is not.
C6_Witness ==
    \E p \in ProductId :
        /\ Len(Journey(p)) = 3
        /\ Journey(p)[2].stage = Delivered
        /\ Journey(p)[3].stage = Delivered
        /\ tx.fn = "markDelivered"
        /\ \E s \in Address : ~IsActive(s)

\* C7: markDelivered by an active DeliveryPartner on an existing product
\* passes every check whatever the current stage; it sets the current stage to
\* Delivered and appends exactly one checkpoint with stage Delivered, location
\* "Customer Location" and the product's last recorded temperature; by an
\* active participant of any other role it reverts with "Only delivery partner
\* can mark as delivered" and so changes nothing.
C7_MarkDelivered ==
    /\ [](\A s \in Address, p \in ProductId :
            (IsActive(s) /\ products[p].exists) =>
                markDeliveredStatus(s, p) =
                    IF RoleOf(s) = DeliveryPartner THEN OK ELSE ErrOnlyDelivery)
    /\ [][tx'.fn = "markDelivered" =>
            LET p == tx'.args.productId
                n == Len(productJourney[p])
            IN  /\ IsActive(tx'.sender) /\ RoleOf(tx'.sender) = DeliveryPartner
                /\ products[p].exists
                /\ products'[p] = [products[p] EXCEPT !.currentStage = Delivered]
                /\ Len(productJourney'[p]) = n + 1
                /\ SubSeq(productJourney'[p], 1, n) = productJourney[p]
                /\ productJourney'[p][n + 1].stage = Delivered
                /\ productJourney'[p][n + 1].location = "Customer Location"
                /\ productJourney'[p][n + 1].temperature = products[p].temperature
                /\ productJourney'[p][n + 1].verifiedBy = tx'.sender
                /\ \A q \in ProductId \ {p} :
                       /\ productJourney'[q] = productJourney[q]
                       /\ products'[q] = products[q]]_vars

\* A delivery that carried a recorded temperature forward, from a stage that
\* is not the one before Delivered.
C7_Witness ==
    /\ tx.fn = "markDelivered"
    /\ LET p == tx.args.productId
       IN  /\ Len(Journey(p)) = 3
           /\ Journey(p)[2].stage = QualityCheck
           /\ Journey(p)[2].temperature = 4
           /\ Last(Journey(p)).temperature = 4
           /\ \E s \in Address :
                  /\ IsActive(s) /\ RoleOf(s) # DeliveryPartner
                  /\ markDeliveredStatus(s, p) = ErrOnlyDelivery

\* C8: a registerProduct that takes effect was sent by an active Farmer and
\* returns the incremented product counter; the product stored under that ID
\* has stage Harvest, quality score 0, certified false, temperature 0, and a
\* journey of exactly one checkpoint: stage Harvest, verified by the caller,
\* located at the supplied origin, temperature 0.
C8_RegisterProduct ==
    [][tx'.fn = "registerProduct" =>
         LET id == tx'.returned
         IN  /\ IsActive(tx'.sender) /\ RoleOf(tx'.sender) = Farmer
             /\ id = productCounter + 1
             /\ productCounter' = id
             /\ ~products[id].exists
             /\ products'[id].exists
             /\ products'[id].productId = id
             /\ products'[id].farmer = tx'.sender
             /\ products'[id].origin = tx'.args.origin
             /\ products'[id].currentStage = Harvest
             /\ products'[id].qualityScore = 0
             /\ products'[id].isCertified = FALSE
             /\ products'[id].temperature = 0
             /\ productCertifications'[id] = <<>>
             /\ Len(productJourney'[id]) = 1
             /\ productJourney'[id][1].stage = Harvest
             /\ productJourney'[id][1].verifiedBy = tx'.sender
             /\ productJourney'[id][1].location = tx'.args.origin
             /\ productJourney'[id][1].temperature = 0
             /\ productJourney'[id][1].notes = "Product harvested"]_vars

\* The second product was just registered, after the first one moved on.
C8_Witness ==
    /\ tx.fn = "registerProduct"
    /\ tx.returned = 2
    /\ CurStage(1) = QualityCheck
    /\ CurStage(2) = Harvest
    /\ Len(Journey(2)) = 1

\* C9: the product counter starts at 0, grows by exactly 1 with each
\* registerProduct that takes effect and is changed by nothing else; the
\* existing product IDs are exactly 1..productCounter, each product is stored
\* under its own ID, and getTotalProducts is the number of products.
C9_DenseProductIds ==
    /\ productCounter = 0
    /\ [](/\ {p \in ProductId : products[p].exists} = 1..productCounter
          /\ \A p \in 1..productCounter : products[p].productId = p
          /\ getTotalProducts = Cardinality({p \in ProductId : products[p].exists}))
    /\ [][/\ productCounter' =
                IF tx'.fn = "registerProduct" THEN productCounter + 1
                                              ELSE productCounter
          /\ \A p \in ProductId :
                products[p].exists =>
                    /\ products'[p].exists
                    /\ products'[p].productId = products[p].productId
                    /\ products'[p].farmer = products[p].farmer]_vars

\* Two products exist and a later transaction was not a registration.
C9_Witness ==
    /\ productCounter = 2
    /\ products[1].exists /\ products[2].exists
    /\ tx.fn = "addCertification"

C11_InactiveCannotMutate ==
    \A a \in Address :
        ~IsActive(a) =>
            /\ \A t \in Address : registerParticipantStatus(a, t) # OK
            /\ deactivateParticipantStatus(a) # OK
            /\ registerProductStatus(a) = ErrNotActive
            /\ \A p \in ProductId :
                  /\ \A st \in Stage : addCheckpointStatus(a, p, st) # OK
                  /\ addCertificationStatus(a, p) # OK
                  /\ \A sc \in 0..100 : updateQualityScoreStatus(a, p, sc) # OK
                  /\ markDeliveredStatus(a, p) # OK

\* C12 as stated: once the active flag of a created participant record is
\* false it is never true again, and the record's name, contact info, role and
\* registration date never change after the record is created.
C12_DeactivationOneWay ==
    [][\A a \in Address :
          participants[a].participantAddress = a =>
              /\ ~participants[a].isActive => ~participants'[a].isActive
              /\ participants'[a].name = participants[a].name
              /\ participants'[a].contactInfo = participants[a].contactInfo
              /\ participants'[a].role = participants[a].role
              /\ participants'[a].registrationDate =
                     participants[a].registrationDate]_vars

\* C13: registerParticipant and deactivateParticipant are authorised by the
\* owner's identity alone.  Sent by any other address, an active participant
\* registered with role Admin included, they revert with "Only owner can
\* perform this action", so every step that changes a participant record is a
\* call of the owner.  Sent by the owner for an address that is active,
\* registerParticipant reverts with "Participant already registered";
\* otherwise it passes, and the target then is an active participant with the
\* given name, contact info and role, every other record being unchanged.
C13_OwnerOnly ==
    /\ [](\A s \in Address, t \in Address :
            /\ s # owner =>
                  /\ registerParticipantStatus(s, t) = ErrOnlyOwner
                  /\ deactivateParticipantStatus(s) = ErrOnlyOwner
            /\ registerParticipantStatus(owner, t) =
                  IF IsActive(t) THEN ErrAlreadyRegistered ELSE OK
            /\ deactivateParticipantStatus(owner) = OK)
    /\ [][participants' # participants =>
            /\ tx'.sender = owner
            /\ tx'.fn \in {"registerParticipant", "deactivateParticipant"}]_vars
    /\ [][tx'.fn \in {"registerParticipant", "deactivateParticipant"} =>
            /\ tx'.sender = owner
            /\ \A a \in Address \ {tx'.args.address} :
                  participants'[a] = participants[a]]_vars
    /\ [][tx'.fn = "registerParticipant" =>
            LET t == tx'.args.address
            IN  /\ ~IsActive(t)
                /\ participants'[t].isActive
                /\ participants'[t].participantAddress = t
                /\ participants'[t].name = tx'.args.name
                /\ participants'[t].contactInfo = tx'.args.contactInfo
                /\ participants'[t].role = tx'.args.role]_vars

\* The owner has just registered, under the Admin role, an account that had
\* harvested a product as a Farmer; that active Admin is refused both calls,
\* and the owner is refused a second registration of it.
C13_Witness ==
    /\ tx.fn = "registerParticipant"
    /\ tx.args.role = Admin
    /\ LET t == tx.args.address
       IN  /\ t # owner
           /\ IsActive(t) /\ RoleOf(t) = Admin
           /\ participants[t].name = "Second Admin"
           /\ \E p \in ProductId :
                 /\ products[p].exists
                 /\ Journey(p)[1].verifiedBy = t
                 /\ Journey(p)[1].verifierName = "Hill Orchard"
           /\ \A a \in Address :
                 /\ registerParticipantStatus(t, a) = ErrOnlyOwner
                 /\ deactivateParticipantStatus(t) = ErrOnlyOwner
           /\ registerParticipantStatus(owner, t) = ErrAlreadyRegistered

\* Scores at and next to both ends of the accepted range.
ScoreProbes == {0, 1, MaxScore - 1, MaxScore, MaxScore + 1, MaxScore + 2}

\* C14: every product's quality score is within 0..100 in every reachable
\* state, and 0 right after registration.  updateQualityScore by an active
\* QualityInspector on an existing product reverts with "Score must be
\* between 0 and 100" for every score above 100 and passes for every score in
\* 0..100; when it takes effect the product's score is the supplied value,
\* whatever it was before, and nothing else of the product changes.
C14_ScoreInRange ==
    /\ [](\A p \in ProductId : products[p].qualityScore \in 0..MaxScore)
    /\ [](\A s \in Address, p \in ProductId, sc \in ScoreProbes :
            (IsActive(s) /\ RoleOf(s) = QualityInspector /\ products[p].exists)
                => updateQualityScoreStatus(s, p, sc) =
                       IF sc > MaxScore THEN ErrScoreRange ELSE OK)
    /\ [][tx'.fn = "registerProduct" =>
            products'[tx'.returned].qualityScore = 0]_vars
    /\ [][tx'.fn = "updateQualityScore" =>
            LET p == tx'.args.productId
            IN  /\ tx'.args.score \in 0..MaxScore
                /\ products'[p] =
                       [products[p] EXCEPT !.qualityScore = tx'.args.score]
                /\ \A q \in ProductId \ {p} : products'[q] = products[q]]_vars

\* A score of 100 was overwritten by a score of 0 while another product holds
\* 100, and the inspector's next score of 101 is refused.
C14_Witness ==
    /\ tx.fn = "updateQualityScore"
    /\ tx.args.score = 0
    /\ products[tx.args.productId].qualityScore = 0
    /\ Len(Journey(tx.args.productId)) > 1
    /\ \E q \in ProductId : products[q].qualityScore = MaxScore
    /\ updateQualityScoreStatus(tx.sender, tx.args.productId, MaxScore + 1)
           = ErrScoreRange
    /\ updateQualityScoreStatus(tx.sender, tx.args.productId, MaxScore) = OK

\* C15: a product's quality score is written by QualityInspectors only.  A
\* step in which some product's score changes is an updateQualityScore on
\* that product sent by an active participant whose role is QualityInspector;
\* sent by an active participant of any other role, updateQualityScore reverts
\* with "Unauthorized role"; registerParticipant, deactivateParticipant,
\* addCheckpoint, addCertification and markDelivered leave every score as it
\* was.
C15_OnlyInspectorScores ==
    /\ [](\A s \in Address, p \in ProductId, sc \in ScoreProbes :
            (IsActive(s) /\ RoleOf(s) # QualityInspector)
                => updateQualityScoreStatus(s, p, sc) = ErrUnauthorizedRole)
    /\ [][\A p \in ProductId :
            products'[p].qualityScore # products[p].qualityScore =>
                /\ tx'.fn = "updateQualityScore"
                /\ tx'.args.productId = p
                /\ IsActive(tx'.sender)
                /\ RoleOf(tx'.sender) = QualityInspector]_vars
    /\ [][tx'.fn \in {"registerParticipant", "deactivateParticipant",
                      "addCheckpoint", "addCertification", "markDelivered"}
            => \A p \in ProductId :
                  products'[p].qualityScore = products[p].qualityScore]_vars

\* A product scored 100 went through a checkpoint, a certification and a
\* delivery, its score still 100, while the farmer's update is refused.
C15_Witness ==
    /\ tx.fn = "markDelivered"
    /\ LET p == tx.args.productId
       IN  /\ products[p].qualityScore = MaxScore
           /\ products[p].isCertified
           /\ Len(Journey(p)) = 3
           /\ \E s \in Address :
                 /\ IsActive(s) /\ RoleOf(s) = Farmer
                 /\ updateQualityScoreStatus(s, p, 0) = ErrUnauthorizedRole
           /\ \E s \in Address :
                 /\ ~IsActive(s) /\ RoleOf(s) = QualityInspector
                 /\ participants[s].participantAddress = s

Certs(p) == productCertifications[p]

\* C16: addCertification passes for any active participant, whatever its
\* role, on any existing product, and no check reads the expiry date; when it
\* takes effect exactly one certification is appended to that product's list,
\* carrying the supplied name, authority, expiry date and hash, the block's
\* timestamp and isValid = true, and no other list changes.  Every stored
\* certification has isValid = true.  For an active caller and an unknown
\* product it reverts with "Product does not exist", for an inactive caller
\* with "Not an active participant", and a list changes in no other step.
C16_AddCertification ==
    /\ [](\A s \in Address, p \in ProductId :
            addCertificationStatus(s, p) =
                IF ~IsActive(s) THEN ErrNotActive
                ELSE IF ~products[p].exists THEN ErrProductNotExist
                ELSE OK)
    /\ [](\A p \in ProductId :
            \A i \in 1..Len(Certs(p)) : Certs(p)[i].isValid = TRUE)
    /\ [][tx'.fn = "addCertification" =>
            LET p == tx'.args.productId
                n == Len(productCertifications[p])
            IN  /\ IsActive(tx'.sender)
                /\ products[p].exists
                /\ Len(productCertifications'[p]) = n + 1
                /\ SubSeq(productCertifications'[p], 1, n) =
                       productCertifications[p]
                /\ productCertifications'[p][n + 1] =
                       [certName |-> tx'.args.certName,
                        certAuthority |-> tx'.args.certAuthority,
                        certDate |-> now,
                        expiryDate |-> tx'.args.expiryDate,
                        certHash |-> tx'.args.certHash,
                        isValid |-> TRUE]
                /\ \A q \in ProductId \ {p} :
                       productCertifications'[q] = productCertifications[q]]_vars
    /\ [][productCertifications' # productCertifications =>
            tx'.fn = "addCertification"]_vars

\* A delivery partner has certified a product with an expiry date that is
\* already past, while a deactivated account and an unknown product ID are
\* refused.
C16_Witness ==
    /\ tx.fn = "addCertification"
    /\ RoleOf(tx.sender) = DeliveryPartner
    /\ tx.args.expiryDate < now
    /\ LET p == tx.args.productId
       IN  /\ Last(Certs(p)).isValid
           /\ Last(Certs(p)).expiryDate < Last(Certs(p)).certDate
           /\ CurStage(p) = QualityCheck
    /\ \E s \in Address, q \in ProductId :
          /\ IsActive(s) /\ ~products[q].exists
          /\ addCertificationStatus(s, q) = ErrProductNotExist
    /\ \E s \in Address :
          /\ ~IsActive(s) /\ participants[s].participantAddress = s
          /\ addCertificationStatus(s, tx.args.productId) = ErrNotActive

\* C17: for every registered product, isCertified is true exactly when the
\* product's certification list is not empty, and once true it is true in
\* every later state.
C17_CertifiedIffCertification ==
    /\ [](\A p \in ProductId :
            products[p].exists =>
                (products[p].isCertified <=> Len(Certs(p)) > 0))
    /\ [][\A p \in ProductId :
            products[p].isCertified => products'[p].isCertified]_vars

\* One product is certified, another is registered and is not, and the
\* certified one has since been delivered.
C17_Witness ==
    /\ tx.fn = "markDelivered"
    /\ products[tx.args.productId].isCertified
    /\ Len(Certs(tx.args.productId)) = 1
    /\ \E q \in ProductId :
          /\ products[q].exists
          /\ ~products[q].isCertified
          /\ Certs(q) = <<>>

Rejected(c) ==
    CASE c.fn = "registerParticipant" ->
             c.sender # owner \/ IsActive(c.args.address)
      [] c.fn = "deactivateParticipant" ->
             c.sender # owner
      [] c.fn = "registerProduct" ->
             ~IsActive(c.sender) \/ RoleOf(c.sender) # Farmer
      [] c.fn = "addCheckpoint" ->
             \/ ~IsActive(c.sender)
             \/ ~products[c.args.productId].exists
             \/ c.args.stage <= CurStage(c.args.productId)
      [] c.fn = "addCertification" ->
             ~IsActive(c.sender) \/ ~products[c.args.productId].exists
      [] c.fn = "updateQualityScore" ->
             \/ ~IsActive(c.sender)
             \/ RoleOf(c.sender) # QualityInspector
             \/ ~products[c.args.productId].exists
             \/ c.args.score > MaxScore
      [] c.fn = "markDelivered" ->
             \/ ~IsActive(c.sender)
             \/ ~products[c.args.productId].exists
             \/ RoleOf(c.sender) # DeliveryPartner
      [] OTHER -> TRUE

\* C19: a rejected call is all-or-nothing.  Each of the seven functions
\* reverts exactly under the conditions of Rejected, and a call that reverts
\* writes nothing and logs nothing: every step in which the storage
\* (participants, products, journeys, certifications, access control, product
\* counter, owner) or the last transaction's logs differ from the state before
\* is a call that was not rejected in that state.
C19_AllOrNothing ==
    /\ [](\A s \in Address, p \in ProductId :
            /\ \A t \in Address :
                  (registerParticipantStatus(s, t) # OK) <=>
                      Rejected([fn |-> "registerParticipant", sender |-> s,
                                args |-> [address |-> t]])
            /\ (deactivateParticipantStatus(s) # OK) <=>
                  Rejected([fn |-> "deactivateParticipant", sender |-> s])
            /\ (registerProductStatus(s) # OK) <=>
                  Rejected([fn |-> "registerProduct", sender |-> s])
            /\ \A st \in Stage :
                  (addCheckpointStatus(s, p, st) # OK) <=>
                      Rejected([fn |-> "addCheckpoint", sender |-> s,
                                args |-> [productId |-> p, stage |-> st]])
            /\ (addCertificationStatus(s, p) # OK) <=>
                  Rejected([fn |-> "addCertification", sender |-> s,
                            args |-> [productId |-> p]])
            /\ \A sc \in ScoreProbes :
                  (updateQualityScoreStatus(s, p, sc) # OK) <=>
                      Rejected([fn |-> "updateQualityScore", sender |-> s,
                                args |-> [productId |-> p, score |-> sc]])
            /\ (markDeliveredStatus(s, p) # OK) <=>
                  Rejected([fn |-> "markDelivered", sender |-> s,
                            args |-> [productId |-> p]]))
    /\ [][(storage' # storage \/ tx' # tx) => ~Rejected(tx')]_vars

\* A state in which a call is rejected for each of the reasons: a stranger
\* and a deactivated account, an active address registered again, an
\* inspector delivering, an unknown product, a delivered product, a score of 101.
C19_Witness ==
    /\ tx.fn = "deactivateParticipant"
    /\ \E s \in Address : registerParticipantStatus(s, s) = ErrOnlyOwner
    /\ \E t \in Address : registerParticipantStatus(owner, t) = ErrAlreadyRegistered
    /\ \E s \in Address :
          /\ participants[s].participantAddress = s
          /\ registerProductStatus(s) = ErrNotActive
    /\ \E s \in Address, p \in ProductId :
          /\ RoleOf(s) = QualityInspector
          /\ markDeliveredStatus(s, p) = ErrOnlyDelivery
          /\ addCheckpointStatus(s, p, Delivered) = ErrInvalidStage
          /\ addCertificationStatus(s, 0) = ErrProductNotExist
    /\ \E s \in Address, p \in ProductId :
          updateQualityScoreStatus(s, p, MaxScore + 1) = ErrScoreRange

\* C20: transactions are mined one at a time, each as a whole, so two calls
\* submitted together take effect in one order or the other.  Whenever an
\* addCheckpoint takes effect while another account's addCheckpoint on the
\* same product would have passed too, that other call afterwards passes if
\* its stage is above the stage just written and reverts with "Invalid stage
\* progression" otherwise: of two calls for the same stage exactly one is
\* applied.  Whenever a registerProduct takes effect while another Farmer's
\* would have passed too, the other one still passes and is given the next
\* ID: the two products get distinct, consecutive IDs.
C20_SerializedCalls ==
    /\ [][\A p \in ProductId, s2 \in Address, st2 \in Stage :
            (/\ tx'.fn = "addCheckpoint"
             /\ tx'.args.productId = p
             /\ tx'.sender # s2
             /\ addCheckpointStatus(s2, p, st2) = OK)
                => addCheckpointStatus(s2, p, st2)' =
                       IF st2 > tx'.args.stage THEN OK ELSE ErrInvalidStage]_vars
    /\ [][\A s2 \in Address :
            (/\ tx'.fn = "registerProduct"
             /\ tx'.sender # s2
             /\ registerProductStatus(s2) = OK)
                => /\ tx'.returned = incrementedCounter
                   /\ products'[tx'.returned].farmer = tx'.sender
                   /\ registerProductStatus(s2)' = OK
                   /\ incrementedCounter' = tx'.returned + 1]_vars

\* Two Farmers registered one product each, IDs 1 and 2; of the two accounts
\* that could move product 1 to QualityCheck one did, and the other is
\* refused the same stage.
C20_Witness ==
    /\ tx.fn = "registerProduct" /\ tx.returned = 2
    /\ products[1].farmer # products[2].farmer
    /\ RoleOf(products[1].farmer) = Farmer /\ IsActive(products[1].farmer)
    /\ Len(Journey(1)) = 2
    /\ Journey(1)[2].stage = QualityCheck
    /\ \E s \in Address :
          /\ s # Journey(1)[2].verifiedBy
          /\ IsActive(s)
          /\ addCheckpointStatus(s, 1, QualityCheck) = ErrInvalidStage
          /\ addCheckpointStatus(s, 2, QualityCheck) = OK

\* C21: events are emitted by the calls that take effect, one transaction
\* after the other, so the log is the concatenation of the transactions' logs
\* in the order they were mined.  registerParticipant logs
\* ParticipantRegistered(address, name, role); registerProduct logs
\* ProductRegistered(id, name, farmer) and then CheckpointAdded(id, Harvest,
\* farmer); addCheckpoint logs CheckpointAdded(id, stage, caller) first;
\* addCertification logs CertificationAdded(id, name); markDelivered logs
\* ProductDelivered(id, customer); a step that logs anything is one of these
\* calls changing the storage.
C21_EventsOfMutations ==
    /\ [][tx'.fn = "registerParticipant" =>
            tx'.logs = << [event |-> "ParticipantRegistered",
                           participantAddress |-> tx'.args.address,
                           name |-> tx'.args.name,
                           role |-> tx'.args.role] >>]_vars
    /\ [][tx'.fn = "registerProduct" =>
            tx'.logs = << [event |-> "ProductRegistered",
                           productId |-> productCounter',
                           productName |-> tx'.args.productName,
                           farmer |-> tx'.sender],
                          [event |-> "CheckpointAdded",
                           productId |-> productCounter',
                           stage |-> Harvest,
                           verifiedBy |-> tx'.sender] >>]_vars
    /\ [][tx'.fn = "addCheckpoint" =>
            /\ Len(tx'.logs) = 3
            /\ tx'.logs[1] = [event |-> "CheckpointAdded",
                              productId |-> tx'.args.productId,
                              stage |-> tx'.args.stage,
                              verifiedBy |-> tx'.sender]
            /\ tx'.logs[2].event = "StageUpdated"
            /\ tx'.logs[3].event = "TemperatureRecorded"]_vars
    /\ [][tx'.fn = "addCertification" =>
            tx'.logs = << [event |-> "CertificationAdded",
                           productId |-> tx'.args.productId,
                           certName |-> tx'.args.certName] >>]_vars
    /\ [][tx'.fn = "markDelivered" =>
            tx'.logs = << [event |-> "ProductDelivered",
                           productId |-> tx'.args.productId,
                           deliveredTo |-> tx'.args.customer] >>]_vars
    /\ [][tx'.fn \in {"updateQualityScore", "deactivateParticipant"} =>
            tx'.logs = << >>]_vars
    /\ [][tx'.logs # << >> =>
            /\ storage' # storage
            /\ tx'.fn \in {"registerParticipant", "registerProduct",
                           "addCheckpoint", "addCertification",
                           "markDelivered"}]_vars

\* An inspector's checkpoint on a product it did not harvest has just been
\* logged, after a registration and a certification were.
C21_Witness ==
    /\ tx.fn = "addCheckpoint"
    /\ tx.logs[1].verifiedBy # products[tx.args.productId].farmer
    /\ tx.logs[1].stage = QualityCheck
    /\ tx.logs[2].newStage = QualityCheck
    /\ products[tx.args.productId].isCertified
    /\ productCounter = 2

IndexProbes == 0..(MaxCheckpoints + 1)

\* C23: on a registered product getCheckpoint reverts with "Invalid
\* checkpoint index" for every index >= the checkpoint count, and for every
\* index below it returns the stage, location, timestamp, verifier, verifier
\* name, temperature and notes of the checkpoint at that position of the
\* journey; getCheckpointCount is the length of what getProductJourney
\* returns.
C23_GetCheckpoint ==
    \A p \in ProductId :
        products[p].exists =>
            /\ getCheckpointCountStatus(p) = OK
            /\ getCheckpointCount(p) = Len(getProductJourney(p))
            /\ \A i \in IndexProbes :
                  IF i >= getCheckpointCount(p)
                  THEN getCheckpointStatus(p, i) = ErrInvalidIndex
                  ELSE /\ getCheckpointStatus(p, i) = OK
                       /\ LET r  == getCheckpoint(p, i)
                              cp == getProductJourney(p)[i + 1]
                          IN  /\ r.stage = cp.stage
                              /\ r.location = cp.location
                              /\ r.timestamp = cp.timestamp
                              /\ r.verifiedBy = cp.verifiedBy
                              /\ r.verifierName = cp.verifierName
                              /\ r.temperature = cp.temperature
                              /\ r.notes = cp.notes

\* A journey of three checkpoints: index 2 is the delivery, index 3 is
\* refused, while a second ID is still unknown.
C23_Witness ==
    /\ getCheckpointCount(1) = 3
    /\ getCheckpoint(1, 0).stage = Harvest
    /\ getCheckpoint(1, 1).stage = QualityCheck
    /\ getCheckpoint(1, 2).location = "Customer Location"
    /\ getCheckpointStatus(1, 3) = ErrInvalidIndex
    /\ getCheckpointStatus(2, 0) = ErrProductNotExist

\* C24: while block timestamps do not go backward, the checkpoints of every
\* journey are in chronological order: for positions i < j the timestamp at i
\* is at most the timestamp at j, and no checkpoint is dated after the
\* present block.
C24_Chronological ==
    \A p \in ProductId :
        \A i \in 1..Len(Journey(p)), j \in 1..Len(Journey(p)) :
            /\ i < j => Journey(p)[i].timestamp <= Journey(p)[j].timestamp
            /\ Journey(p)[j].timestamp <= now

\* A journey whose checkpoints were written in two different blocks, by
\* registerProduct, addCheckpoint and markDelivered.
C24_Witness ==
    \E p \in ProductId :
        /\ Len(Journey(p)) = 3
        /\ Journey(p)[1].timestamp = 1
        /\ Journey(p)[2].stage = QualityCheck
        /\ Journey(p)[3].timestamp = 2
        /\ Journey(p)[3].location = "Customer Location"

\* C25 as stated: every product ID that generateProductId returns is accepted
\* by isValidProductId, and generateProductId throws for the empty string,
\* for null and for a value that is not a string.
C25_GeneratedIdIsValid ==
    tx.fn = "generateProductId" =>
        /\ ~tx.returned.threw => isValidProductId(tx.returned.value)
        /\ (\/ tx.args.productType.type # "string"
            \/ tx.args.productType.value = <<>>) => tx.returned.threw

\* C26: a checkpoint is a snapshot of its verifier.  In every step that
\* appends a checkpoint, by registerProduct, addCheckpoint or markDelivered,
\* the new checkpoint is verified by the caller and carries the name and the
\* role that the caller's participant record holds in that step; no step
\* alters a checkpoint already in a journey, whatever happens to the
\* participant record afterwards.
C26_VerifierSnapshot ==
    /\ [][\A p \in ProductId :
            Len(productJourney'[p]) # Len(productJourney[p]) =>
                LET cp == productJourney'[p][Len(productJourney'[p])]
                IN  /\ Len(productJourney'[p]) = Len(productJourney[p]) + 1
                    /\ tx'.fn \in {"registerProduct", "addCheckpoint",
                                   "markDelivered"}
                    /\ cp.verifiedBy = tx'.sender
                    /\ cp.verifierName = participants[tx'.sender].name
                    /\ cp.verifierRole = participants[tx'.sender].role]_vars
    /\ [][\A p \in ProductId :
            SubSeq(productJourney'[p], 1, Len(productJourney[p]))
                = productJourney[p]]_vars

\* The account that wrote a product's QualityCheck checkpoint as "Quality
\* Inspector" has since been registered again as "Second Admin": the
\* checkpoint still shows the old name and role, next to a Harvest and a
\* delivery checkpoint.
C26_Witness ==
    /\ tx.fn = "registerParticipant"
    /\ \E p \in ProductId :
          /\ Len(Journey(p)) = 3
          /\ Journey(p)[1].verifierRole = Farmer
          /\ Journey(p)[2].verifiedBy = tx.args.address
          /\ Journey(p)[2].verifierName = "Quality Inspector"
          /\ Journey(p)[2].verifierRole = QualityInspector
          /\ Journey(p)[3].verifierRole = DeliveryPartner
          /\ participants[tx.args.address].name = "Second Admin"
          /\ RoleOf(tx.args.address) = Admin

\* C27: for every registered product, the product's temperature equals the
\* temperature of the last checkpoint of its journey.
C27_TemperatureIsLastCheckpoint ==
    \A p \in ProductId :
        products[p].exists =>
            products[p].temperature = Last(Journey(p)).temperature

\* A product registered at 0 was measured at 4 degrees and then delivered,
\* its terminal checkpoint carrying the 4.
C27_Witness ==
    /\ tx.fn = "markDelivered"
    /\ products[tx.args.productId].temperature = 4
    /\ Len(Journey(tx.args.productId)) = 3
    /\ Journey(tx.args.productId)[1].temperature = 0
    /\ Journey(tx.args.productId)[2].temperature = 4
    /\ Last(Journey(tx.args.productId)).location = "Customer Location"

\* C28 as stated: every checkpoint appended to a journey is announced by a
\* CheckpointAdded event, so that the CheckpointAdded events of a product are
\* as many as its checkpoints and the i-th carries the stage and verifier of
\* the i-th checkpoint: each step that appends a checkpoint to a product, the
\* one of markDelivered included, logs exactly one CheckpointAdded for that
\* product with the checkpoint's stage and verifier, and no other step logs
\* one.
C28_EveryCheckpointAnnounced ==
    [][\A p \in ProductId :
          LET announced == {k \in 1..Len(tx'.logs) :
                               /\ tx'.logs[k].event = "CheckpointAdded"
                               /\ tx'.logs[k].productId = p}
              n == Len(productJourney[p])
          IN  IF Len(productJourney'[p]) = n + 1
              THEN /\ Cardinality(announced) = 1
                   /\ \A k \in announced :
                         /\ tx'.logs[k].stage = productJourney'[p][n + 1].stage
                         /\ tx'.logs[k].verifiedBy =
                                productJourney'[p][n + 1].verifiedBy
              ELSE /\ productJourney'[p] = productJourney[p]
                   /\ announced = {}]_vars

\* C29: the checks run in a fixed order.  A caller that is not an active
\* participant, never registered or deactivated, gets "Not an active
\* participant" from registerProduct, addCheckpoint, addCertification,
\* updateQualityScore and markDelivered, whatever its role, the product ID
\* and the other arguments.  For an active caller: updateQualityScore checks
\* the role, then the product, then the score; addCheckpoint checks the
\* product, then the stage; addCertification checks the product;
\* markDelivered checks the product, then the DeliveryPartner role.
C29_CheckOrder ==
    \A s \in Address, p \in ProductId :
        IF ~IsActive(s)
        THEN /\ registerProductStatus(s) = ErrNotActive
             /\ addCertificationStatus(s, p) = ErrNotActive
             /\ markDeliveredStatus(s, p) = ErrNotActive
             /\ \A st \in Stage : addCheckpointStatus(s, p, st) = ErrNotActive
             /\ \A sc \in ScoreProbes :
                   updateQualityScoreStatus(s, p, sc) = ErrNotActive
        ELSE /\ \A sc \in ScoreProbes :
                   updateQualityScoreStatus(s, p, sc) =
                       IF RoleOf(s) # QualityInspector THEN ErrUnauthorizedRole
                       ELSE IF ~products[p].exists THEN ErrProductNotExist
                       ELSE IF sc > MaxScore THEN ErrScoreRange
                       ELSE OK
             /\ \A st \in Stage :
                   addCheckpointStatus(s, p, st) =
                       IF ~products[p].exists THEN ErrProductNotExist
                       ELSE IF st <= CurStage(p) THEN ErrInvalidStage
                       ELSE OK
             /\ addCertificationStatus(s, p) =
                   IF ~products[p].exists THEN ErrProductNotExist ELSE OK
             /\ markDeliveredStatus(s, p) =
                   IF ~products[p].exists THEN ErrProductNotExist
                   ELSE IF RoleOf(s) # DeliveryPartner THEN ErrOnlyDelivery
                   ELSE OK

\* Several checks fail at once: a deactivated inspector and an account that
\* was never registered face an unknown product with a score of 101, and an
\* active farmer asks for a stage that is not above the current one of a
\* product that does not exist.
C29_Witness ==
    /\ tx.fn = "deactivateParticipant"
    /\ products[1].exists /\ ~products[2].exists
    /\ \E s \in Address :
          /\ participants[s].participantAddress = s
          /\ ~IsActive(s) /\ RoleOf(s) = QualityInspector
          /\ updateQualityScoreStatus(s, 2, MaxScore + 1) = ErrNotActive
    /\ \E s \in Address :
          /\ participants[s].participantAddress = ZeroAddress
          /\ markDeliveredStatus(s, 2) = ErrNotActive
    /\ \E s \in Address :
          /\ IsActive(s) /\ RoleOf(s) = Farmer
          /\ updateQualityScoreStatus(s, 2, MaxScore + 1) = ErrUnauthorizedRole
          /\ addCheckpointStatus(s, 2, Harvest) = ErrProductNotExist
          /\ markDeliveredStatus(s, 2) = ErrProductNotExist
          /\ markDeliveredStatus(s, 1) = ErrOnlyDelivery

\* The checkpoints of a journey that addCheckpoint wrote: not the first one,
\* which registerProduct writes, and not those with the notes that
\* markDelivered writes (no addCheckpoint explored sends these notes).
ByAddCheckpoint(p) ==
    {i \in 2..Len(Journey(p)) :
        Journey(p)[i].notes # "Product delivered to customer"}

\* C30: stage progression through addCheckpoint terminates.  Every
\* addCheckpoint that takes effect raises the product's stage, which no step
\* lowers and which is at most Delivered (8); so at most 8 checkpoints of a
\* journey were written by addCheckpoint, a journey without a markDelivered
\* checkpoint has at most 9 checkpoints, and a longer journey holds
\* checkpoints of markDelivered.
C30_ProgressionTerminates ==
    /\ [](\A p \in ProductId :
            /\ CurStage(p) \in Stage
            /\ Cardinality(ByAddCheckpoint(p)) <= CurStage(p)
            /\ Cardinality(ByAddCheckpoint(p)) <= 8
            /\ Len(Journey(p)) > 9 =>
                  \E i \in 1..Len(Journey(p)) :
                      Journey(p)[i].notes = "Product delivered to customer")
    /\ [][\A p \in ProductId :
            /\ products'[p].currentStage >= products[p].currentStage
            /\ (tx'.fn = "addCheckpoint" /\ tx'.args.productId = p) =>
                  /\ products'[p].currentStage > products[p].currentStage
                  /\ Cardinality(ByAddCheckpoint(p)') =
                         Cardinality(ByAddCheckpoint(p)) + 1]_vars

\* A journey of nine checkpoints, one for each stage in order: eight were
\* written by addCheckpoint, and a ninth addCheckpoint is refused whatever
\* the stage.
C30_Witness ==
    \E p \in ProductId :
        /\ Len(Journey(p)) = 9
        /\ \A i \in 1..9 : Journey(p)[i].stage = i - 1
        /\ Cardinality(ByAddCheckpoint(p)) = 8
        /\ tx.fn = "addCheckpoint"
        /\ \A st \in Stage :
              addCheckpointStatus(tx.sender, p, st) = ErrInvalidStage

=============================================================================
